---- MODULE Spec2Model ----
(***************************************************************************)
(* A model of lerproxy: the server orchestrator (run, setupServer), the    *)
(* backend resolver (setProxy, readMapping), the request directors and the *)
(* connection wrappers (tcpkeepalive.Listener, timeout.Conn).              *)
(*                                                                         *)
(* Strings that the code inspects (hostnames, backend addresses) are       *)
(* sequences of tokens; a token is a character ("@", "/") or a word the    *)
(* code looks for as a whole ("nostr.json", "http:").                      *)
(***************************************************************************)
EXTENDS Integers, Sequences, FiniteSets, TLC

VARIABLES
    args,        \* runArgs handed to run: Cache, HTTP, RTO, WTO, Idle
    conf,        \* the mapping file args.Conf: [opens, lines, scanErr]
    fsys,        \* the file system: [unreadable (well-known documents), mkdirOK]
    goos,        \* runtime.GOOS
    runPc,       \* position of run: "start", "wait" (group.Wait), "returned"
    runErr,      \* the value run returned
    mapping,     \* the mapping read by readMapping (hostname -> backend address)
    mux,         \* the routing table: set of registered [host, path, handler]
    whitelist,   \* the hostnames handed to autocert.HostWhitelist
    srv,         \* the TLS http.Server: [ReadTimeout, WriteTimeout]
    tlsMode,     \* which TLS task was launched: "none", "direct", "keepalive"
    task,        \* state of each task of the errgroup
    taskRet,     \* the error each task returned to the group
    srvErr,      \* the error each serve call stopped with
    inShutdown,  \* per server: Shutdown has begun
    grace,       \* per server: the grace context of its Shutdown call
    conns,       \* per server: connections in flight
    wrapped,     \* TLS connections accepted as timeout.Conn
    parentDone,  \* the parent context (interrupt signal) is cancelled
    ctxDone,     \* the group's shared context is cancelled
    gErr,        \* errgroup: the first non-nil error
    cleanCancel, \* the parent was cancelled while every server was serving
    todo,        \* setProxy: the mapping entries the loop has not visited yet
    spPc,        \* setProxy: "idle", "start", "loop", "ok", "err"
    spErr,       \* setProxy: the error returned
    last,        \* the request being served by the routing table and its outcome
    now,         \* the clock read by time.Now
    ln,          \* the tcpkeepalive.Listener: [Duration]
    tconn,       \* the TCP connections of the listener
    lastAccept,  \* the result of the latest Listener.Accept
    lastOp       \* the latest Read or Write on a connection and its result

lifeVars == <<args, conf, fsys, goos, runPc, runErr, mapping, mux, whitelist,
              srv, tlsMode, task, taskRet, srvErr, inShutdown, grace, conns,
              wrapped, parentDone, ctxDone, gErr, cleanCancel>>

proxyVars == <<todo, spPc, spErr, last>>

connVars == <<now, ln, tconn, lastAccept, lastOp>>

vars == <<lifeVars, proxyVars, connVars>>

----------------------------------------------------------------------------
(* Bounds *)

MaxAddrLen == 2     \* tokens in a generated backend address
MaxConns == 1       \* connections in flight per server
MaxEntries == 2     \* entries of a mapping with sample addresses
MaxAccepted == 2    \* connections a listener accepts
MaxTime == 3        \* clock ticks
MaxIdle == 2        \* the longest idle duration of a listener

----------------------------------------------------------------------------
(* Values *)

Nil == "nil"
ErrNoCache == "no cache specified"
ErrOpen == "open failed"
ErrInvalidLine == "invalid line"
ErrScan == "scan error"
ErrEmptyMapping == "empty mapping"
ErrInvalidHostname == "invalid hostname"
ErrMkdir == "cannot create cache directory"
ErrReadFile == "cannot read file"
ErrBind == "bind failed"
ErrAccept == "accept failed"
ErrKeepAlive == "set keep-alive failed"
ErrKeepAlivePeriod == "set keep-alive period failed"
ErrServerClosed == "http: Server closed"
ErrDeadlineExceeded == "context deadline exceeded"

PathSeparator == "/"
NUL == "\\0"

DurationValues == {-1, 0, 1}

Servers == {"http", "tls"}
ServeTasks == {"http", "tls"}
Watchers == {"httpw", "tlsw"}
Tasks == ServeTasks \cup Watchers
ServerOf(t) == IF t \in {"http", "httpw"} THEN "http" ELSE "tls"

----------------------------------------------------------------------------
(* Strings as token sequences *)

Tok == {"@", "/", "?", "nostr.json", "http://", "https://", "ftp://", "x", "%"}
LetterTok == {"x", "nostr.json"}
SchemeTok == {"http://", "https://", "ftp://"}

SeqsUpTo(S, n) == UNION {[1..k -> S] : k \in 0..n}

HasPrefix(s, c) == Len(s) > 0 /\ s[1] = c
HasSuffix(s, c) == Len(s) > 0 /\ s[Len(s)] = c
ContainsRune(s, c) == \E i \in 1..Len(s) : s[i] = c
IsAbs(s) == HasPrefix(s, PathSeparator)

\* index of the first token of s that is in T, or Len(s)+1
FirstIn(s, T) ==
    IF \E i \in 1..Len(s) : s[i] \in T
    THEN CHOOSE i \in 1..Len(s) : s[i] \in T /\ \A j \in 1..(i-1) : s[j] \notin T
    ELSE Len(s) + 1

\* index of the last "@" of s, or 0
LastAt(s) ==
    IF ContainsRune(s, "@")
    THEN CHOOSE i \in 1..Len(s) : s[i] = "@" /\ \A j \in (i+1)..Len(s) : s[j] # "@"
    ELSE 0

SchemeName(t) ==
    IF t = "http://" THEN "http" ELSE IF t = "https://" THEN "https" ELSE "ftp"

URL(ok, scheme, host, path, query) ==
    [ok |-> ok, Scheme |-> scheme, Host |-> host, Path |-> path, RawQuery |-> query]

\* url.Parse on a token sequence.  The scheme is the run of letters up to
\* the first colon: a leading scheme token gives http, https or ftp, a scheme
\* token after letter tokens a longer name ("xhttp"), any other token before
\* it no scheme.  What follows the first "?" is the raw query.  After a
\* scheme token comes the authority, up to the first "/" (a scheme token
\* inside it ends it with its letters and colon, an empty port, and is kept
\* as the host's last token); the host is what follows the last "@"; the
\* rest is the path.  Without a scheme a colon in the first path segment is
\* an error.  "%" never starts a valid escape here, so it is an error
\* wherever the URL is unescaped (everywhere but in the query).
ParseURL(ba) ==
    LET k == FirstIn(ba, Tok \ LetterTok)
        hasScheme == k <= Len(ba) /\ ba[k] \in SchemeTok
        scheme == IF ~hasScheme THEN ""
                  ELSE IF k = 1 THEN SchemeName(ba[1]) ELSE "other"
        tail == IF hasScheme THEN SubSeq(ba, k + 1, Len(ba)) ELSE ba
        q == FirstIn(tail, {"?"})
        rest == SubSeq(tail, 1, q - 1)
        query == SubSeq(tail, q + 1, Len(tail))
        fs == FirstIn(rest, {"/"} \cup SchemeTok)
        auth == IF fs <= Len(rest) /\ rest[fs] \in SchemeTok
                THEN SubSeq(rest, 1, fs) ELSE SubSeq(rest, 1, fs - 1)
    IN  IF hasScheme
        THEN URL(~ContainsRune(rest, "%"), scheme,
                 SubSeq(auth, LastAt(auth) + 1, Len(auth)),
                 SubSeq(rest, fs, Len(rest)), query)
        ELSE URL(~ContainsRune(rest, "%")
                     /\ ~(fs <= Len(rest) /\ rest[fs] \in SchemeTok /\ ~IsAbs(rest)),
                 "", <<>>, rest, query)

----------------------------------------------------------------------------
(* Backend resolver: setProxy *)

\* the path the well-known document is served at
WellKnownPath == <<"/", ".well-known", "/", "nostr.json">>

NoURL == URL(FALSE, "", <<>>, <<>>, <<>>)

\* body: the bytes a well-known-document handler holds, <<>> for the others
Handler(kind, network, addr, target) ==
    [kind |-> kind, network |-> network, addr |-> addr, target |-> target,
     body |-> <<>>]

\* the bytes of the file at path ba, before and after it is rewritten
FileBytes(ba, rewritten) == <<ba, IF rewritten THEN "new" ELSE "old">>

\* the handler registered for a well-known document: its closure holds fb,
\* the bytes os.ReadFile returned during setProxy
WellKnownHandler(ba, fb) ==
    [Handler("wellknown", "unix", ba, NoURL) EXCEPT !.body = fb]

Route(hn, path, h) == [host |-> hn, path |-> path, handler |-> h]

\* a hostname check that looks at the first rune only
InvalidHostnameFirstRune(hn) == HasPrefix(hn, PathSeparator)

\* strings.ContainsRune(hn, os.PathSeparator)
InvalidHostname(hn) == ContainsRune(hn, PathSeparator)

\* the abstract socket name left as written
AbstractAddrBare(ba) == ba

\* ba+string(byte(0))
AbstractAddr(ba) == ba \o <<NUL>>

\* the well-known case without the `continue` after a failed os.ReadFile
WellKnownRoutesNoSkip(hn, ba, unreadable) ==
    {Route(hn, WellKnownPath,
           WellKnownHandler(ba, IF ba \in unreadable THEN <<>>
                                ELSE FileBytes(ba, FALSE)))}

\* case strings.HasSuffix(ba, "nostr.json"): nothing is registered when the
\* file cannot be read, else the pattern hn+"/.well-known/nostr.json" with
\* the bytes read now
WellKnownRoutes(hn, ba, unreadable) ==
    IF ba \in unreadable
    THEN {}
    ELSE {Route(hn, WellKnownPath, WellKnownHandler(ba, FileBytes(ba, FALSE)))}

\* ResolveEntry without the runtime.GOOS test of line 176
ResolveEntryAnyOS(hn, ba, os, unreadable) ==
    IF ba # <<>> /\ ba[1] = "@"
    THEN {Route(hn, <<"/">>, Handler("dial", "unix", AbstractAddr(ba), NoURL))}
    ELSE IF IsAbs(ba)
    THEN IF HasSuffix(ba, PathSeparator)
         THEN {Route(hn, <<"/">>, Handler("static", "unix", ba, NoURL))}
         ELSE IF HasSuffix(ba, "nostr.json")
         THEN WellKnownRoutes(hn, ba, unreadable)
         ELSE {Route(hn, <<"/">>, Handler("dial", "unix", ba, NoURL))}
    ELSE IF ParseURL(ba).ok /\ ParseURL(ba).Scheme \in {"http", "https"}
    THEN {Route(hn, <<"/">>, Handler("http", "tcp", ba, ParseURL(ba)))}
    ELSE {Route(hn, <<"/">>, Handler("dial", "tcp", ba, NoURL))}

\* One iteration of the loop of setProxy over the entry hn -> ba, after the
\* hostname check: the set of patterns it registers with mux.Handle.
ResolveEntry(hn, ba, os, unreadable) ==
    IF ba # <<>> /\ ba[1] = "@" /\ os = "linux"
    THEN {Route(hn, <<"/">>, Handler("dial", "unix", AbstractAddr(ba), NoURL))}
    ELSE IF IsAbs(ba)
    THEN IF HasSuffix(ba, PathSeparator)
         THEN {Route(hn, <<"/">>, Handler("static", "unix", ba, NoURL))}
         ELSE IF HasSuffix(ba, "nostr.json")
         THEN WellKnownRoutes(hn, ba, unreadable)
         ELSE {Route(hn, <<"/">>, Handler("dial", "unix", ba, NoURL))}
    ELSE IF ParseURL(ba).ok /\ ParseURL(ba).Scheme \in {"http", "https"}
    THEN {Route(hn, <<"/">>, Handler("http", "tcp", ba, ParseURL(ba)))}
    ELSE {Route(hn, <<"/">>, Handler("dial", "tcp", ba, NoURL))}

\* setProxy without the hostname check of lines 171-174
setProxyNoHostnameCheck(m, os, unreadable) ==
    IF DOMAIN m = {}
    THEN [err |-> ErrEmptyMapping, mux |-> {}]
    ELSE [err |-> Nil,
          mux |-> UNION {ResolveEntry(hn, m[hn], os, unreadable) : hn \in DOMAIN m}]

\* setProxy: the error and the routing table.  The loop visits the entries
\* in any order; it returns at the first hostname holding a path separator,
\* with no handler, and otherwise registers what each entry resolves to.
setProxy(m, os, unreadable) ==
    IF DOMAIN m = {}
    THEN [err |-> ErrEmptyMapping, mux |-> {}]
    ELSE IF \E hn \in DOMAIN m : InvalidHostname(hn)
    THEN [err |-> ErrInvalidHostname, mux |-> {}]
    ELSE [err |-> Nil,
          mux |-> UNION {ResolveEntry(hn, m[hn], os, unreadable) : hn \in DOMAIN m}]

----------------------------------------------------------------------------
(* Mapping file: readMapping *)

EmptyMap == [h \in {} |-> <<>>]

Put(m, k, v) == [h \in DOMAIN m \cup {k} |-> IF h = k THEN v ELSE m[h]]

BlankLine == [kind |-> "blank", host |-> <<>>, addr |-> <<>>]
CommentLine == [kind |-> "comment", host |-> <<>>, addr |-> <<>>]
NoColonLine == [kind |-> "noColon", host |-> <<>>, addr |-> <<>>]
EntryLine(h, a) == [kind |-> "entry", host |-> h, addr |-> a]

\* a scan that skips a line without a colon instead of stopping at it
RECURSIVE ScanLinesSkipBad(_, _)
ScanLinesSkipBad(lines, m) ==
    IF lines = <<>> THEN [m |-> m, err |-> Nil]
    ELSE LET l == Head(lines)
         IN  IF l.kind \in {"blank", "comment", "noColon"}
             THEN ScanLinesSkipBad(Tail(lines), m)
             ELSE ScanLinesSkipBad(Tail(lines), Put(m, l.host, l.addr))

\* the scanning loop of readMapping (lines 251-264): blank and comment
\* lines are skipped, a line without a colon ends the scan with an error and
\* the entries read so far, a later entry for a hostname replaces an earlier
RECURSIVE ScanLines(_, _)
ScanLines(lines, m) ==
    IF lines = <<>> THEN [m |-> m, err |-> Nil]
    ELSE LET l == Head(lines)
         IN  IF l.kind \in {"blank", "comment"} THEN ScanLines(Tail(lines), m)
             ELSE IF l.kind = "noColon" THEN [m |-> m, err |-> ErrInvalidLine]
             ELSE ScanLines(Tail(lines), Put(m, l.host, l.addr))

readMapping(file) ==
    IF ~file.opens THEN [m |-> EmptyMap, err |-> ErrOpen]
    ELSE LET r == ScanLines(file.lines, EmptyMap)
         IN  IF r.err # Nil THEN r
             ELSE [m |-> r.m, err |-> IF file.scanErr THEN ErrScan ELSE Nil]

----------------------------------------------------------------------------
(* Server orchestrator: setupServer and run *)

\* util.GetKeys: the keys of the mapping
GetKeys(m) == DOMAIN m

setupServer(a, file, fs, os) ==
    LET rm == readMapping(file)
        sp == setProxy(rm.m, os, fs.unreadable)
    IN  IF rm.err # Nil
        THEN [err |-> rm.err, mapping |-> rm.m, mux |-> {}, whitelist |-> {}]
        ELSE IF sp.err # Nil
        THEN [err |-> sp.err, mapping |-> rm.m, mux |-> {}, whitelist |-> {}]
        ELSE IF ~fs.mkdirOK
        THEN [err |-> ErrMkdir, mapping |-> rm.m, mux |-> sp.mux, whitelist |-> {}]
        ELSE [err |-> Nil, mapping |-> rm.m, mux |-> sp.mux,
              whitelist |-> GetKeys(rm.m)]

\* run, lines 74-80: the timeouts of the TLS server
ServerTimeouts(a) ==
    [ReadTimeout |-> IF a.RTO > 0 THEN a.RTO ELSE 0,
     WriteTimeout |-> IF a.WTO > 0 THEN a.WTO ELSE 0]

\* the condition of line 101 with the first || turned into &&
UseDirectTLSAnd(s, a) == (s.ReadTimeout # 0 /\ s.WriteTimeout # 0) \/ a.Idle = 0

\* run, line 101: the direct ListenAndServeTLS task is the one launched
UseDirectTLS(s, a) == s.ReadTimeout # 0 \/ s.WriteTimeout # 0 \/ a.Idle = 0

\* the value the plain-HTTP task hands to the group (run, lines 89-92):
\* the error of ListenAndServe is logged, the named result is never assigned
HttpTaskResult(e) == Nil

\* the value the direct TLS task hands to the group (run, lines 102-105)
TlsDirectTaskResult(e) == Nil

\* the value the keep-alive TLS task hands to the group (run, lines 107-120)
TlsKeepAliveTaskResult(e) == e

\* context.Background() in place of the one-second context
GraceCtxBackground == "unset"

\* the grace context handed to Shutdown (run, lines 95-96 and 124)
GraceCtx == "running"

\* a listener that wraps only for a positive Duration
AcceptWrapsPositive(duration) == duration > 0

\* tcpkeepalive.Listener.Accept: the connection is a timeout.Conn
AcceptWraps(duration) == duration # 0

Launched == {t \in Tasks : task[t] # "absent"}

\* errgroup.Group.Go: the task's result reaches the group; the first
\* non-nil error is kept and cancels the shared context
GroupReturn(t, e) ==
    /\ task' = [task EXCEPT ![t] = "done"]
    /\ taskRet' = [taskRet EXCEPT ![t] = e]
    /\ gErr' = IF e # Nil /\ gErr = Nil THEN e ELSE gErr
    /\ ctxDone' = (ctxDone \/ e # Nil)

LifeHosts == {<<"a">>, <<"c", "/", "d">>}
LifeAddrs == {<<"x">>, <<"/", "nostr.json">>}
LifeLines == {BlankLine, CommentLine, NoColonLine}
                 \cup {EntryLine(h, a) : h \in LifeHosts, a \in LifeAddrs}

ArgsValues ==
    [Cache : {"", "/var/cache/letsencrypt"}, HTTP : {"", ":http"},
     RTO : DurationValues, WTO : DurationValues, Idle : DurationValues]

\* mapping files: unopenable, empty, every one-line file, and two-line files
\* with a comment, a repeated hostname, and a malformed line after an entry
ConfFiles ==
    {<<>>} \cup {<<l>> : l \in LifeLines}
        \cup {<<CommentLine, EntryLine(<<"a">>, <<"x">>)>>,
              <<EntryLine(<<"a">>, <<"x">>), EntryLine(<<"a">>, <<"/", "nostr.json">>)>>,
              <<EntryLine(<<"a">>, <<"x">>), NoColonLine>>}

ConfValues ==
    {[opens |-> FALSE, lines |-> <<>>, scanErr |-> FALSE]}
        \cup [opens : {TRUE}, lines : ConfFiles, scanErr : BOOLEAN]

DefaultArgs ==
    [Cache |-> "/var/cache/letsencrypt", HTTP |-> ":http", RTO |-> 1, WTO |-> 1,
     Idle |-> 0]

NoConf == [opens |-> FALSE, lines |-> <<>>, scanErr |-> FALSE]

\* run has not started
RunInit ==
    /\ runPc = "start"
    /\ runErr = Nil
    /\ whitelist = {}
    /\ srv = [ReadTimeout |-> 0, WriteTimeout |-> 0]
    /\ tlsMode = "none"
    /\ task = [t \in Tasks |-> "absent"]
    /\ taskRet = [t \in Tasks |-> Nil]
    /\ srvErr = [s \in Servers |-> Nil]
    /\ inShutdown = [s \in Servers |-> FALSE]
    /\ grace = [s \in Servers |-> "unset"]
    /\ conns = [s \in Servers |-> 0]
    /\ wrapped = 0
    /\ parentDone = FALSE
    /\ ctxDone = FALSE
    /\ gErr = Nil
    /\ cleanCancel = FALSE

NoRequest == [served |-> FALSE]
NoAccept == [conn |-> 0, err |-> Nil, timeoutConn |-> FALSE]
NoOp == [conn |-> 0]

\* setProxy is not being followed step by step, no request is served
ProxyIdle ==
    /\ todo = {}
    /\ spPc = "idle"
    /\ spErr = Nil
    /\ last = NoRequest

\* no listener of the connection model
ConnIdle ==
    /\ now = 0
    /\ ln = [Duration |-> 0]
    /\ tconn = <<>>
    /\ lastAccept = NoAccept
    /\ lastOp = NoOp

Init ==
    /\ args \in ArgsValues
    /\ conf \in ConfValues
    /\ fsys \in [unreadable : SUBSET {<<"/", "nostr.json">>}, mkdirOK : BOOLEAN,
                 rewritten : {FALSE}]
    /\ goos = "linux"
    /\ mapping = EmptyMap
    /\ mux = {}
    /\ RunInit
    /\ ProxyIdle
    /\ ConnIdle

\* run up to group.Wait: the cache check, setupServer, the timeouts and the
\* launch of the tasks
RunStart ==
    /\ runPc = "start"
    /\ IF args.Cache = ""
       THEN /\ runPc' = "returned"
            /\ runErr' = ErrNoCache
            /\ UNCHANGED <<mapping, mux, whitelist, srv, tlsMode, task>>
       ELSE LET su == setupServer(args, conf, fsys, goos)
                s == ServerTimeouts(args)
            IN  /\ mapping' = su.mapping
                /\ mux' = su.mux
                /\ whitelist' = su.whitelist
                /\ IF su.err # Nil
                   THEN /\ runPc' = "returned"
                        /\ runErr' = su.err
                        /\ UNCHANGED <<srv, tlsMode, task>>
                   ELSE /\ runPc' = "wait"
                        /\ runErr' = Nil
                        /\ srv' = s
                        /\ tlsMode' = IF UseDirectTLS(s, args)
                                      THEN "direct" ELSE "keepalive"
                        /\ task' = [t \in Tasks |->
                                     IF ServerOf(t) = "http" /\ args.HTTP = ""
                                     THEN "absent"
                                     ELSE IF t \in Watchers THEN "waiting"
                                     ELSE "ready"]
    /\ UNCHANGED <<args, conf, fsys, goos, taskRet, srvErr, inShutdown, grace,
                   conns, wrapped, parentDone, ctxDone, gErr, cleanCancel>>
    /\ UNCHANGED <<proxyVars, connVars>>

\* the plain-HTTP task: httpServer.ListenAndServe starts
HttpListenAndServe ==
    /\ task["http"] = "ready"
    /\ \E bindOK \in BOOLEAN :
        IF inShutdown["http"] \/ ~bindOK
        THEN LET e == IF inShutdown["http"] THEN ErrServerClosed ELSE ErrBind
             IN  /\ srvErr' = [srvErr EXCEPT !["http"] = e]
                 /\ GroupReturn("http", HttpTaskResult(e))
        ELSE /\ task' = [task EXCEPT !["http"] = "serving"]
             /\ UNCHANGED <<taskRet, srvErr, gErr, ctxDone>>
    /\ UNCHANGED <<args, conf, fsys, goos, runPc, runErr, mapping, mux,
                   whitelist, srv, tlsMode, inShutdown, grace, conns, wrapped,
                   parentDone, cleanCancel>>
    /\ UNCHANGED <<proxyVars, connVars>>

\* the TLS task: srv.ListenAndServeTLS starts, or net.Listen and srv.ServeTLS
\* over the keep-alive listener
TlsListen ==
    /\ task["tls"] = "ready"
    /\ \E bindOK \in BOOLEAN :
        IF tlsMode = "direct"
        THEN IF inShutdown["tls"] \/ ~bindOK
             THEN LET e == IF inShutdown["tls"] THEN ErrServerClosed ELSE ErrBind
                  IN  /\ srvErr' = [srvErr EXCEPT !["tls"] = e]
                      /\ GroupReturn("tls", TlsDirectTaskResult(e))
             ELSE /\ task' = [task EXCEPT !["tls"] = "serving"]
                  /\ UNCHANGED <<taskRet, srvErr, gErr, ctxDone>>
        ELSE IF ~bindOK \/ inShutdown["tls"]
             THEN LET e == IF ~bindOK THEN ErrBind ELSE ErrServerClosed
                  IN  /\ srvErr' = [srvErr EXCEPT !["tls"] = e]
                      /\ GroupReturn("tls", TlsKeepAliveTaskResult(e))
             ELSE /\ task' = [task EXCEPT !["tls"] = "serving"]
                  /\ UNCHANGED <<taskRet, srvErr, gErr, ctxDone>>
    /\ UNCHANGED <<args, conf, fsys, goos, runPc, runErr, mapping, mux,
                   whitelist, srv, tlsMode, inShutdown, grace, conns, wrapped,
                   parentDone, cleanCancel>>
    /\ UNCHANGED <<proxyVars, connVars>>

TaskResult(s, e) ==
    IF s = "http" THEN HttpTaskResult(e)
    ELSE IF tlsMode = "direct" THEN TlsDirectTaskResult(e)
    ELSE TlsKeepAliveTaskResult(e)

\* a serve call returns ErrServerClosed once Shutdown has begun
ServeReturn(s) ==
    /\ task[s] = "serving"
    /\ inShutdown[s]
    /\ srvErr' = [srvErr EXCEPT ![s] = ErrServerClosed]
    /\ GroupReturn(s, TaskResult(s, ErrServerClosed))
    /\ UNCHANGED <<args, conf, fsys, goos, runPc, runErr, mapping, mux,
                   whitelist, srv, tlsMode, inShutdown, grace, conns, wrapped,
                   parentDone, cleanCancel>>
    /\ UNCHANGED <<proxyVars, connVars>>

\* a serve call stops because Accept returned an error that is not temporary
ServeFail(s) ==
    /\ task[s] = "serving"
    /\ ~inShutdown[s]
    /\ srvErr' = [srvErr EXCEPT ![s] = ErrAccept]
    /\ GroupReturn(s, TaskResult(s, ErrAccept))
    /\ UNCHANGED <<args, conf, fsys, goos, runPc, runErr, mapping, mux,
                   whitelist, srv, tlsMode, inShutdown, grace, conns, wrapped,
                   parentDone, cleanCancel>>
    /\ UNCHANGED <<proxyVars, connVars>>

\* in keep-alive mode Listener.Accept has accepted a connection and failed to
\* enable keep-alive on it or to set its period; it returns that error, which
\* is not temporary, so Serve stops with it and the task returns it
KeepAliveFail ==
    /\ task["tls"] = "serving"
    /\ tlsMode = "keepalive"
    /\ ~inShutdown["tls"]
    /\ \E e \in {ErrKeepAlive, ErrKeepAlivePeriod} :
        /\ lastAccept' = [conn |-> 0, err |-> e, timeoutConn |-> FALSE]
        /\ srvErr' = [srvErr EXCEPT !["tls"] = e]
        /\ GroupReturn("tls", TaskResult("tls", e))
    /\ UNCHANGED <<args, conf, fsys, goos, runPc, runErr, mapping, mux,
                   whitelist, srv, tlsMode, inShutdown, grace, conns, wrapped,
                   parentDone, cleanCancel>>
    /\ UNCHANGED <<proxyVars, now, ln, tconn, lastOp>>

\* a server that adds the name a connection asks for to the whitelist when
\* it accepts the connection
AcceptConnLearnsHost(s) ==
    /\ task[s] = "serving"
    /\ ~inShutdown[s]
    /\ conns[s] < MaxConns
    /\ whitelist' = whitelist \cup {<<"z">>}
    /\ conns' = [conns EXCEPT ![s] = @ + 1]
    /\ wrapped' = IF s = "tls" /\ tlsMode = "keepalive" /\ AcceptWraps(args.Idle)
                  THEN wrapped + 1 ELSE wrapped
    /\ UNCHANGED <<args, conf, fsys, goos, runPc, runErr, mapping, mux,
                   srv, tlsMode, task, taskRet, srvErr, inShutdown,
                   grace, parentDone, ctxDone, gErr, cleanCancel>>
    /\ UNCHANGED <<proxyVars, connVars>>

\* a server accepts a connection; in keep-alive mode through Listener.Accept
AcceptConn(s) ==
    /\ task[s] = "serving"
    /\ ~inShutdown[s]
    /\ conns[s] < MaxConns
    /\ conns' = [conns EXCEPT ![s] = @ + 1]
    /\ wrapped' = IF s = "tls" /\ tlsMode = "keepalive" /\ AcceptWraps(args.Idle)
                  THEN wrapped + 1 ELSE wrapped
    /\ UNCHANGED <<args, conf, fsys, goos, runPc, runErr, mapping, mux,
                   whitelist, srv, tlsMode, task, taskRet, srvErr, inShutdown,
                   grace, parentDone, ctxDone, gErr, cleanCancel>>
    /\ UNCHANGED <<proxyVars, connVars>>

\* a connection in flight finishes
ConnDone(s) ==
    /\ conns[s] > 0
    /\ conns' = [conns EXCEPT ![s] = @ - 1]
    /\ wrapped' = IF s = "tls" /\ wrapped > 0 THEN wrapped - 1 ELSE wrapped
    /\ UNCHANGED <<args, conf, fsys, goos, runPc, runErr, mapping, mux,
                   whitelist, srv, tlsMode, task, taskRet, srvErr, inShutdown,
                   grace, parentDone, ctxDone, gErr, cleanCancel>>
    /\ UNCHANGED <<proxyVars, connVars>>

\* the interrupt signal cancels the parent context, and with it the shared one
ParentCancel ==
    /\ ~parentDone
    /\ runPc # "returned"
    /\ parentDone' = TRUE
    /\ ctxDone' = TRUE
    /\ cleanCancel' = /\ runPc = "wait"
                      /\ \A t \in ServeTasks \cap Launched : task[t] = "serving"
    /\ UNCHANGED <<args, conf, fsys, goos, runPc, runErr, mapping, mux,
                   whitelist, srv, tlsMode, task, taskRet, srvErr, inShutdown,
                   grace, conns, wrapped, gErr>>
    /\ UNCHANGED <<proxyVars, connVars>>

\* a shutdown watcher: <-ctx.Done() returns and Shutdown begins
WatcherWake(w) ==
    /\ task[w] = "waiting"
    /\ ctxDone
    /\ task' = [task EXCEPT ![w] = "shutdown"]
    /\ inShutdown' = [inShutdown EXCEPT ![ServerOf(w)] = TRUE]
    /\ grace' = [grace EXCEPT ![ServerOf(w)] = GraceCtx]
    /\ UNCHANGED <<args, conf, fsys, goos, runPc, runErr, mapping, mux,
                   whitelist, srv, tlsMode, taskRet, srvErr, conns, wrapped,
                   parentDone, ctxDone, gErr, cleanCancel>>
    /\ UNCHANGED <<proxyVars, connVars>>

\* the grace context of a Shutdown call expires
GraceExpire(w) ==
    /\ task[w] = "shutdown"
    /\ grace[ServerOf(w)] = "running"
    /\ grace' = [grace EXCEPT ![ServerOf(w)] = "expired"]
    /\ UNCHANGED <<args, conf, fsys, goos, runPc, runErr, mapping, mux,
                   whitelist, srv, tlsMode, task, taskRet, srvErr, inShutdown,
                   conns, wrapped, parentDone, ctxDone, gErr, cleanCancel>>
    /\ UNCHANGED <<proxyVars, connVars>>

\* Shutdown returns: nil when no connection is in flight, the context's
\* error when the grace context has expired
WatcherReturn(w) ==
    /\ task[w] = "shutdown"
    /\ IF conns[ServerOf(w)] = 0
       THEN GroupReturn(w, Nil)
       ELSE /\ grace[ServerOf(w)] = "expired"
            /\ GroupReturn(w, ErrDeadlineExceeded)
    /\ UNCHANGED <<args, conf, fsys, goos, runPc, runErr, mapping, mux,
                   whitelist, srv, tlsMode, srvErr, inShutdown, grace, conns,
                   wrapped, parentDone, cleanCancel>>
    /\ UNCHANGED <<proxyVars, connVars>>

\* group.Wait returns when every task has returned
RunWait ==
    /\ runPc = "wait"
    /\ \A t \in Launched : task[t] = "done"
    /\ runPc' = "returned"
    /\ runErr' = gErr
    /\ ctxDone' = TRUE
    /\ UNCHANGED <<args, conf, fsys, goos, mapping, mux, whitelist, srv,
                   tlsMode, task, taskRet, srvErr, inShutdown, grace, conns,
                   wrapped, parentDone, gErr, cleanCancel>>
    /\ UNCHANGED <<proxyVars, connVars>>

Next ==
    \/ RunStart
    \/ HttpListenAndServe
    \/ TlsListen
    \/ \E s \in Servers : ServeReturn(s)
    \/ \E s \in Servers : ServeFail(s)
    \/ KeepAliveFail
    \/ \E s \in Servers : AcceptConn(s)
    \/ \E s \in Servers : ConnDone(s)
    \/ ParentCancel
    \/ \E w \in Watchers : WatcherWake(w)
    \/ \E w \in Watchers : GraceExpire(w)
    \/ \E w \in Watchers : WatcherReturn(w)
    \/ RunWait

Spec == Init /\ [][Next]_vars

\* the scheduler runs every task that can take a step and timers fire; the
\* interrupt, the peers' connections and failures are under no obligation
Fairness ==
    /\ WF_vars(RunStart)
    /\ WF_vars(HttpListenAndServe)
    /\ WF_vars(TlsListen)
    /\ \A s \in Servers : WF_vars(ServeReturn(s))
    /\ \A w \in Watchers : WF_vars(WatcherWake(w))
    /\ \A w \in Watchers : WF_vars(GraceExpire(w))
    /\ \A w \in Watchers : WF_vars(WatcherReturn(w))
    /\ WF_vars(RunWait)

\* the fair behaviours are checked from the configurations whose durations
\* are not negative, whose mapping file has at most one line and whose
\* well-known documents are readable
LiveInit ==
    /\ Init
    /\ args.RTO >= 0 /\ args.WTO >= 0 /\ args.Idle >= 0
    /\ Len(conf.lines) <= 1
    /\ fsys.unreadable = {}

FairSpec == LiveInit /\ [][Next]_vars /\ Fairness

----------------------------------------------------------------------------
(* Request directors and the routing table *)

Absent == "absent"

\* util.SingleJoiningSlash: a and b joined by exactly one slash
SingleJoiningSlash(a, b) ==
    IF HasSuffix(a, "/") /\ HasPrefix(b, "/") THEN a \o Tail(b)
    ELSE IF ~HasSuffix(a, "/") /\ ~HasPrefix(b, "/") THEN a \o <<"/">> \o b
    ELSE a \o b

\* a merge that always puts '&' between the two queries
JoinQueryAlways(targetQuery, rawQuery) == targetQuery \o <<"&">> \o rawQuery

\* the merge of the target's query and the request's (proxy.go, lines 26-30)
JoinQuery(targetQuery, rawQuery) ==
    IF targetQuery = <<>> \/ rawQuery = <<>>
    THEN targetQuery \o rawQuery
    ELSE targetQuery \o <<"&">> \o rawQuery

\* the director of reverse.NewSingleHostReverseProxy keeping an
\* X-Forwarded-Proto the client sent
HTTPDirectorKeepProto(target, req) ==
    [req EXCEPT
        !.URL = [Scheme |-> target.Scheme,
                 Host |-> target.Host,
                 Path |-> SingleJoiningSlash(target.Path, req.URL.Path),
                 RawQuery |-> JoinQuery(target.RawQuery, req.URL.RawQuery)],
        !.Header = [@ EXCEPT !["User-Agent"] = IF @ = Absent THEN "" ELSE @,
                             !["X-Forwarded-Proto"] =
                                 IF @ = Absent THEN "https" ELSE @]]

\* the director of reverse.NewSingleHostReverseProxy; req.Host is not touched
HTTPDirector(target, req) ==
    [req EXCEPT
        !.URL = [Scheme |-> target.Scheme,
                 Host |-> target.Host,
                 Path |-> SingleJoiningSlash(target.Path, req.URL.Path),
                 RawQuery |-> JoinQuery(target.RawQuery, req.URL.RawQuery)],
        !.Header = [@ EXCEPT !["User-Agent"] = IF @ = Absent THEN "" ELSE @,
                             !["X-Forwarded-Proto"] = "https"]]

\* the director of the dialing proxies (setProxy, lines 220-229)
DialDirector(req) ==
    [req EXCEPT
        !.URL = [@ EXCEPT !.Scheme = "http", !.Host = req.Host],
        !.Header = [@ EXCEPT !["X-Forwarded-Proto"] = "https",
                             !["X-Forwarded-For"] = req.RemoteAddr,
                             !["Access-Control-Allow-Methods"] =
                                 "GET,HEAD,PUT,PATCH,POST,DELETE",
                             !["Access-Control-Allow-Origin"] = "*"]]

\* httputil.ReverseProxy sends the request the director left: the Host
\* header on the wire is req.Host, or the URL's host when req.Host is empty
OutboundHost(outreq) ==
    IF outreq.Host # <<>> THEN outreq.Host ELSE outreq.URL.Host

\* http.ServeMux: the pattern of route rt matches request r
RouteMatches(rt, r) ==
    /\ rt.host = <<>> \/ rt.host = r.Host
    /\ IF HasSuffix(rt.path, "/")
       THEN Len(r.URL.Path) >= Len(rt.path)
            /\ SubSeq(r.URL.Path, 1, Len(rt.path)) = rt.path
       ELSE r.URL.Path = rt.path

\* http.ServeMux: a pattern with a host wins over one without, then the
\* longer path wins
RouteBeats(a, b) ==
    \/ a.host # <<>> /\ b.host = <<>>
    \/ (a.host = <<>>) = (b.host = <<>>) /\ Len(a.path) > Len(b.path)

NoRoute == Route(<<>>, <<>>, Handler("notfound", "", <<>>, NoURL))

Dispatch(m, r) ==
    LET ms == {rt \in m : RouteMatches(rt, r)}
    IN  IF ms = {} THEN NoRoute
        ELSE CHOOSE rt \in ms : \A o \in ms \ {rt} : RouteBeats(rt, o)

\* a DialContext whose network and ba are shared by the handlers of the
\* table, so that all of them dial what one entry left there
DialTargetShared(h, m) ==
    LET x == CHOOSE d \in {rt.handler : rt \in {o \in m : o.handler.kind = "dial"}} :
                 TRUE
    IN  <<x.network, x.addr>>

\* DialContext of a dialing proxy (lines 231-235): net.DialTimeout(network,
\* ba, ...) with the network and ba of the loop iteration that built the
\* handler, whatever the request is
DialTarget(h, m) == <<h.network, h.addr>>

\* the CORS headers the well-known handler and modifyCORSResponse set on the
\* response
CORSHeader ==
    [n \in {"Access-Control-Allow-Methods", "Access-Control-Allow-Origin"} |->
        IF n = "Access-Control-Allow-Origin" THEN "*"
        ELSE "GET,HEAD,PUT,PATCH,POST,DELETE"]

NoCORSHeader ==
    [n \in {"Access-Control-Allow-Methods", "Access-Control-Allow-Origin"} |->
        Absent]

\* mux.ServeHTTP: the request is handed to the handler of the best pattern;
\* a well-known handler writes the bytes its closure holds
Serve(m, r) ==
    LET rt == Dispatch(m, r)
        h == rt.handler
    IN  [served |-> TRUE, req |-> r, route |-> rt, kind |-> h.kind,
         status |-> IF h.kind = "notfound" THEN 404 ELSE 200,
         outreq |-> IF h.kind = "http" THEN HTTPDirector(h.target, r)
                    ELSE IF h.kind = "dial" THEN DialDirector(r)
                    ELSE r,
         dial |-> IF h.kind = "dial" THEN DialTarget(h, m) ELSE <<>>,
         body |-> h.body,
         respHeader |-> IF h.kind \in {"wellknown", "http"} THEN CORSHeader
                        ELSE NoCORSHeader]

ReqHosts == {<<"a">>, <<"b">>, <<"z">>, <<>>}
ReqPaths == {<<"/">>, <<"/", "x">>, WellKnownPath}

Requests ==
    {[Host |-> h,
      URL |-> [Scheme |-> "", Host |-> <<>>, Path |-> p, RawQuery |-> q],
      Header |-> [n \in {"User-Agent", "X-Forwarded-Proto", "X-Forwarded-For",
                          "Access-Control-Allow-Methods",
                          "Access-Control-Allow-Origin"} |->
                     IF n = "User-Agent" THEN ua
                     ELSE IF n = "X-Forwarded-Proto" THEN xfp
                     ELSE IF n = "X-Forwarded-For" THEN xff
                     ELSE Absent],
      RemoteAddr |-> "192.0.2.1:4711"] :
        h \in ReqHosts, p \in ReqPaths, q \in {<<>>, <<"x">>},
        ua \in {Absent, "curl"}, xfp \in {Absent, "http"},
        xff \in {Absent, "198.51.100.7"}}

ProxyHosts == {<<"a">>, <<"b">>, <<"c", "/", "d">>, <<>>}

\* one address of every backend kind
SampleAddrs ==
    {<<"@", "x">>, <<"/", "x", "/">>, <<"/", "nostr.json">>,
     <<"/", "x", "nostr.json">>, <<"/", "x">>,
     <<"http://", "x", "/", "x", "?", "x">>, <<"x">>}

Addrs == SeqsUpTo(Tok, MaxAddrLen)

\* the empty mapping, every one-entry mapping over the generated addresses,
\* and the mappings of two to MaxEntries entries over the sample addresses
ProxyMappings ==
    {EmptyMap}
        \cup {[h \in {hn} |-> a] : hn \in ProxyHosts, a \in Addrs}
        \cup UNION {[S -> SampleAddrs] :
                       S \in {T \in SUBSET ProxyHosts :
                                 Cardinality(T) >= 2 /\ Cardinality(T) <= MaxEntries}}

WellKnownAddrs(m) ==
    {m[h] : h \in {k \in DOMAIN m : IsAbs(m[k]) /\ HasSuffix(m[k], "nostr.json")}}

InitProxy ==
    /\ args = DefaultArgs
    /\ conf = NoConf
    /\ mapping \in ProxyMappings
    /\ fsys \in [unreadable : SUBSET WellKnownAddrs(mapping), mkdirOK : {TRUE},
                 rewritten : {FALSE}]
    /\ goos \in {"linux", "darwin"}
    /\ mux = {}
    /\ RunInit
    /\ todo = DOMAIN mapping
    /\ spPc = "start"
    /\ spErr = Nil
    /\ last = NoRequest
    /\ ConnIdle

\* setProxy, lines 165-168: the empty mapping is refused
SetProxyStart ==
    /\ spPc = "start"
    /\ IF DOMAIN mapping = {}
       THEN spPc' = "err" /\ spErr' = ErrEmptyMapping
       ELSE spPc' = "loop" /\ spErr' = Nil
    /\ UNCHANGED <<lifeVars, todo, last, connVars>>

\* the named result err after the loop body ran for address ba: the
\* well-known case assigns it the result of os.ReadFile (line 191), no other
\* case touches it
NamedErrAfter(e, ba, os, unreadable) ==
    IF ~(HasPrefix(ba, "@") /\ os = "linux") /\ IsAbs(ba)
          /\ ~HasSuffix(ba, PathSeparator) /\ HasSuffix(ba, "nostr.json")
    THEN IF ba \in unreadable THEN ErrReadFile ELSE Nil
    ELSE e

\* a bare `return` at the end of setProxy, which returns the named result
ReturnedErrNamed(e) == e

\* `return mux, nil` (line 242): the error returned after the loop, whatever
\* the named result holds
ReturnedErr(e) == Nil

\* setProxy, lines 169-241: the loop visits one more entry, in any order
SetProxyIter ==
    /\ spPc = "loop"
    /\ \E hn \in todo :
        IF InvalidHostname(hn)
        THEN /\ spPc' = "err"
             /\ spErr' = ErrInvalidHostname
             /\ mux' = {}
             /\ UNCHANGED todo
        ELSE /\ mux' = mux \cup ResolveEntry(hn, mapping[hn], goos, fsys.unreadable)
             /\ todo' = todo \ {hn}
             /\ spErr' = NamedErrAfter(spErr, mapping[hn], goos, fsys.unreadable)
             /\ UNCHANGED spPc
    /\ UNCHANGED <<args, conf, fsys, goos, runPc, runErr, mapping, whitelist,
                   srv, tlsMode, task, taskRet, srvErr, inShutdown, grace,
                   conns, wrapped, parentDone, ctxDone, gErr, cleanCancel>>
    /\ UNCHANGED <<last, connVars>>

\* setProxy, line 242: the loop is over, the mux is returned
SetProxyReturn ==
    /\ spPc = "loop"
    /\ todo = {}
    /\ spPc' = "ok"
    /\ spErr' = ReturnedErr(spErr)
    /\ UNCHANGED <<lifeVars, todo, last, connVars>>

\* somebody rewrites the well-known documents on disk after setProxy has read
\* them
FileRewritten ==
    /\ spPc = "ok"
    /\ ~fsys.rewritten
    /\ WellKnownAddrs(mapping) # {}
    /\ fsys' = [fsys EXCEPT !.rewritten = TRUE]
    /\ UNCHANGED <<args, conf, goos, runPc, runErr, mapping, mux, whitelist,
                   srv, tlsMode, task, taskRet, srvErr, inShutdown, grace,
                   conns, wrapped, parentDone, ctxDone, gErr, cleanCancel>>
    /\ UNCHANGED <<proxyVars, connVars>>

\* the TLS server hands the next request to the routing table
ServeRequest ==
    /\ spPc = "ok"
    /\ ~last.served
    /\ \E r \in Requests : last' = Serve(mux, r)
    /\ UNCHANGED <<lifeVars, todo, spPc, spErr, connVars>>

\* the response is written, the server waits for the next request
RequestDone ==
    /\ last.served
    /\ last' = NoRequest
    /\ UNCHANGED <<lifeVars, todo, spPc, spErr, connVars>>

NextProxy ==
    \/ SetProxyStart
    \/ SetProxyIter
    \/ SetProxyReturn
    \/ FileRewritten
    \/ ServeRequest
    \/ RequestDone

SpecProxy == InitProxy /\ [][NextProxy]_vars

----------------------------------------------------------------------------
(* Connection wrappers: tcpkeepalive.Listener and timeout.Conn *)

\* tcpkeepalive.Period, in minutes
Period == 3

ErrIO == "i/o error"
ErrNetClosing == "use of closed network connection"

\* st: "free" (not accepted yet), "open", "closed"; owner: "server" once
\* Accept has returned the connection, "none" otherwise; acceptedAt: the time
\* at which Accept returned it
FreeConn ==
    [st |-> "free", owner |-> "none", timeoutConn |-> FALSE, Duration |-> 0,
     keepAlive |-> FALSE, period |-> 0, hasDeadline |-> FALSE, deadline |-> 0,
     acceptedAt |-> 0]

ConnIds == 1..MaxAccepted

InitConn ==
    /\ args = DefaultArgs
    /\ conf = NoConf
    /\ fsys = [unreadable |-> {}, mkdirOK |-> TRUE, rewritten |-> FALSE]
    /\ goos = "linux"
    /\ mapping = EmptyMap
    /\ mux = {}
    /\ RunInit
    /\ ProxyIdle
    /\ now = 0
    /\ ln \in [Duration : -1..MaxIdle]
    /\ tconn = [c \in ConnIds |-> FreeConn]
    /\ lastAccept = NoAccept
    /\ lastOp = NoOp

\* time.Now().Add(c.Duration) without the Add
getTimeoutNow(c) == now

\* Conn.getTimeout
getTimeout(c) == now + c.Duration

\* Listener.Accept
LnAccept ==
    /\ \E c \in ConnIds :
        /\ tconn[c].st = "free"
        /\ \A d \in ConnIds : d < c => tconn[d].st # "free"
        /\ \E outcome \in {"ok", ErrAccept, ErrKeepAlive, ErrKeepAlivePeriod} :
            IF outcome = ErrAccept
            THEN /\ lastAccept' = [conn |-> 0, err |-> ErrAccept, timeoutConn |-> FALSE]
                 /\ UNCHANGED tconn
            ELSE IF outcome = ErrKeepAlive
            THEN /\ lastAccept' = [conn |-> 0, err |-> ErrKeepAlive, timeoutConn |-> FALSE]
                 /\ tconn' = [tconn EXCEPT ![c] = [FreeConn EXCEPT !.st = "open"]]
            ELSE IF outcome = ErrKeepAlivePeriod
            THEN /\ lastAccept' = [conn |-> 0, err |-> ErrKeepAlivePeriod,
                                   timeoutConn |-> FALSE]
                 /\ tconn' = [tconn EXCEPT ![c] =
                                [FreeConn EXCEPT !.st = "open", !.keepAlive = TRUE]]
            ELSE /\ lastAccept' = [conn |-> c, err |-> Nil,
                                   timeoutConn |-> AcceptWraps(ln.Duration)]
                 /\ tconn' = [tconn EXCEPT ![c] =
                                [FreeConn EXCEPT !.st = "open", !.owner = "server",
                                                 !.keepAlive = TRUE, !.period = Period,
                                                 !.timeoutConn = AcceptWraps(ln.Duration),
                                                 !.Duration = ln.Duration,
                                                 !.acceptedAt = now]]
    /\ UNCHANGED <<lifeVars, proxyVars, now, ln, lastOp>>

\* a Read or Write that calls SetDeadline whether or not the underlying
\* operation succeeded
AfterIOAlways(cn, ok, closedMeanwhile) ==
    IF ~cn.timeoutConn THEN cn
    ELSE IF closedMeanwhile THEN [cn EXCEPT !.st = "closed"]
    ELSE [cn EXCEPT !.hasDeadline = TRUE, !.deadline = getTimeout(cn)]

\* the connection after Conn.Read or Conn.Write: `if n, e = c.TCPConn.Read(b);
\* e == nil { e = c.SetDeadline(c.getTimeout()) }`; a plain *net.TCPConn has
\* no such step
AfterIO(cn, ok, closedMeanwhile) ==
    IF ~ok \/ ~cn.timeoutConn THEN cn
    ELSE IF closedMeanwhile THEN [cn EXCEPT !.st = "closed"]
    ELSE [cn EXCEPT !.hasDeadline = TRUE, !.deadline = getTimeout(cn)]

\* Conn.Read and Conn.Write on connection c.  The underlying operation
\* succeeds only on an open connection whose deadline has not passed.  After
\* a success SetDeadline is called; it fails when another goroutine has
\* closed the connection in between, and its error is the one returned.
ConnIO(c, op) ==
    /\ tconn[c].owner = "server"
    /\ \E ok, closedMeanwhile \in BOOLEAN :
        /\ ok => /\ tconn[c].st = "open"
                 /\ ~tconn[c].hasDeadline \/ now < tconn[c].deadline
        /\ closedMeanwhile => (ok /\ tconn[c].timeoutConn)
        /\ tconn' = [tconn EXCEPT ![c] = AfterIO(@, ok, closedMeanwhile)]
        /\ lastOp' = [conn |-> c, op |-> op, ok |-> ok, t |-> now,
                      setDeadlineFailed |-> closedMeanwhile,
                      err |-> IF ~ok THEN ErrIO
                              ELSE IF closedMeanwhile THEN ErrNetClosing ELSE Nil,
                      before |-> tconn[c]]
    /\ UNCHANGED <<lifeVars, proxyVars, now, ln, lastAccept>>

ConnRead(c) == ConnIO(c, "Read")

ConnWrite(c) == ConnIO(c, "Write")

\* the server closes a connection
ConnClose(c) ==
    /\ tconn[c].owner = "server"
    /\ tconn[c].st = "open"
    /\ tconn' = [tconn EXCEPT ![c].st = "closed"]
    /\ UNCHANGED <<lifeVars, proxyVars, now, ln, lastAccept, lastOp>>

\* time passes
Tick ==
    /\ now < MaxTime
    /\ tconn # <<>>
    /\ now' = now + 1
    /\ UNCHANGED <<lifeVars, proxyVars, ln, tconn, lastAccept, lastOp>>

NextConn ==
    \/ LnAccept
    \/ \E c \in ConnIds : ConnRead(c)
    \/ \E c \in ConnIds : ConnWrite(c)
    \/ \E c \in ConnIds : ConnClose(c)
    \/ Tick

SpecConn == InitConn /\ [][NextConn]_vars

----------------------------------------------------------------------------
(* Claims *)

RealErrors == {ErrBind, ErrAccept}

\* C1: when the TLS serve call has stopped with an error while the parent
\* context is not cancelled, the task has reported it: the shared context
\* is cancelled and the error run returns is not nil
C1_TlsFailureCancels ==
    (task["tls"] = "done" /\ srvErr["tls"] \in RealErrors /\ ~parentDone)
        => /\ ctxDone
           /\ gErr # Nil
           /\ (runPc = "returned" => runErr # Nil)

\* C2: when the plain-HTTP listener has failed to bind, its task has
\* reported a non-nil error, the shared context is cancelled and the error
\* run returns is not nil
C2_HttpBindFatal ==
    (task["http"] = "done" /\ srvErr["http"] = ErrBind)
        => /\ taskRet["http"] # Nil
           /\ ctxDone
           /\ (runPc = "returned" => runErr # Nil)

\* C3: the value run returns is an error some task returned, nil when none
\* did; and it is nil when the parent was cancelled while every server was
\* serving, the serve calls stopped only because of Shutdown and every
\* Shutdown call returned nil within its grace period
C3_RunResult ==
    (runPc = "returned" /\ Launched # {})
        => /\ (runErr # Nil => \E t \in Launched : taskRet[t] = runErr)
           /\ ((\E t \in Launched : taskRet[t] # Nil) => runErr # Nil)
           /\ ( ( /\ cleanCancel
                  /\ \A t \in ServeTasks \cap Launched : srvErr[t] = ErrServerClosed
                  /\ \A w \in Watchers \cap Launched : taskRet[w] = Nil )
                => runErr = Nil )

\* C4: after the parent context is cancelled, every launched task returns
\* and run returns, whatever the connections in flight do
C4_CancelTerminates ==
    parentDone ~> (runPc = "returned" /\ \A t \in Launched : task[t] = "done")

\* C4 witness: run has returned after an interrupt although a connection was
\* still in flight and a Shutdown call ran into its grace deadline
C4_Witness ==
    /\ runPc = "returned"
    /\ parentDone
    /\ \E w \in Watchers : taskRet[w] = ErrDeadlineExceeded
    /\ \E s \in Servers : conns[s] > 0

\* the startup steps all succeed: the cache argument is not empty, the
\* mapping file is read to its end without a malformed line, it has an
\* entry, no hostname holds a path separator, the cache directory is made
C5_SetupSucceeds ==
    /\ args.Cache # ""
    /\ conf.opens
    /\ ~conf.scanErr
    /\ \A i \in 1..Len(conf.lines) : conf.lines[i].kind # "noColon"
    /\ \E i \in 1..Len(conf.lines) : conf.lines[i].kind = "entry"
    /\ \A i \in 1..Len(conf.lines) :
           conf.lines[i].kind = "entry"
               => ~ContainsRune(conf.lines[i].host, PathSeparator)
    /\ fsys.mkdirOK

\* C5: a task is launched only when every startup step succeeded; when one
\* fails run has returned a non-nil error and no task was launched
C5_FailFast ==
    /\ (Launched # {} => C5_SetupSucceeds)
    /\ (runPc # "start" /\ ~C5_SetupSucceeds)
           => (runPc = "returned" /\ runErr # Nil /\ Launched = {})

\* C5 witness: run has returned the invalid-hostname error with no task
C5_Witness ==
    /\ runPc = "returned"
    /\ runErr = ErrInvalidHostname
    /\ Launched = {}
    /\ args.Cache # ""

\* C6: the certificate whitelist is exactly the set of hostnames that got a
\* routing-table entry
C6_WhitelistIsRouted ==
    runPc = "wait" => whitelist = {r.host : r \in mux}

\* C7: a request handled by an HTTP(S) upstream handler goes upstream with
\* the upstream URL's host as its Host, whatever the inbound Host was
C7_UpstreamHost ==
    (last.served /\ last.kind = "http")
        => OutboundHost(last.outreq) = last.route.handler.target.Host

\* the backend kind of address ba, by the first match in the fixed order
C8_Kind(ba, os) ==
    IF HasPrefix(ba, "@") /\ os = "linux" THEN "abstract"
    ELSE IF IsAbs(ba) /\ HasSuffix(ba, PathSeparator) THEN "static"
    ELSE IF IsAbs(ba) /\ HasSuffix(ba, "nostr.json") THEN "wellknown"
    ELSE IF IsAbs(ba) THEN "unix"
    ELSE IF ParseURL(ba).ok /\ ParseURL(ba).Scheme \in {"http", "https"} THEN "http"
    ELSE "tcp"

\* the handler a backend kind stands for
C8_HandlerOfKind(k, ba, h) ==
    \/ k = "abstract" /\ h.kind = "dial" /\ h.network = "unix" /\ h.addr = ba \o <<NUL>>
    \/ k = "static" /\ h.kind = "static" /\ h.addr = ba
    \/ k = "wellknown" /\ h.kind = "wellknown" /\ h.addr = ba
    \/ k = "unix" /\ h.kind = "dial" /\ h.network = "unix" /\ h.addr = ba
    \/ k = "http" /\ h.kind = "http" /\ h.target = ParseURL(ba)
    \/ k = "tcp" /\ h.kind = "dial" /\ h.network = "tcp" /\ h.addr = ba

C9_TimeoutStrategiesExclusive ==
    /\ wrapped > 0
           => (srv.ReadTimeout = 0 /\ srv.WriteTimeout = 0 /\ args.Idle # 0)
    /\ (Launched # {} /\ (srv.ReadTimeout # 0 \/ srv.WriteTimeout # 0 \/ args.Idle = 0))
           => (tlsMode = "direct" /\ wrapped = 0)

\* C9 witness: an idle-timeout connection is in flight on the TLS server
C9_Witness ==
    /\ wrapped > 0
    /\ tlsMode = "keepalive"
    /\ conns["tls"] > 0

\* the latest Read or Write was on an idle-timeout connection and its
\* underlying operation succeeded
C10_SuccessfulIO ==
    /\ lastOp.conn # 0
    /\ lastOp.before.timeoutConn
    /\ lastOp.ok

\* C10 as stated: after a Read or Write whose underlying operation succeeded
\* at time T the deadline of the connection is T + Duration
C10_DeadlineAfterSuccess ==
    C10_SuccessfulIO
        => /\ tconn[lastOp.conn].hasDeadline
           /\ tconn[lastOp.conn].deadline = lastOp.t + tconn[lastOp.conn].Duration

\* C10 amended: after a Read or Write whose underlying operation succeeded
\* at time T the deadline of the connection is T + Duration, unless
\* SetDeadline failed because the connection was closed in between: then the
\* deadline is as it was and the call returned the error of SetDeadline
C10_DeadlineAfterSuccessUnlessClosed ==
    C10_SuccessfulIO
        => IF lastOp.setDeadlineFailed
           THEN /\ tconn[lastOp.conn].hasDeadline = lastOp.before.hasDeadline
                /\ tconn[lastOp.conn].deadline = lastOp.before.deadline
                /\ tconn[lastOp.conn].st = "closed"
                /\ lastOp.err = ErrNetClosing
           ELSE /\ tconn[lastOp.conn].hasDeadline
                /\ tconn[lastOp.conn].deadline
                       = lastOp.t + tconn[lastOp.conn].Duration
                /\ lastOp.err = Nil

\* C10 witness: a Read succeeded after the clock had advanced past an earlier
\* deadline setting, and the deadline moved to the new T + Duration
C10_Witness ==
    /\ C10_SuccessfulIO
    /\ lastOp.op = "Read"
    /\ ~lastOp.setDeadlineFailed
    /\ lastOp.before.hasDeadline
    /\ lastOp.t > 0
    /\ tconn[lastOp.conn].deadline = lastOp.t + ln.Duration
    /\ tconn[lastOp.conn].deadline # lastOp.before.deadline

\* C11: a Read or Write whose underlying operation failed leaves the
\* deadline of the connection exactly as it was before the call, whatever
\* operations came before it
C11_FailedIOKeepsDeadline ==
    (lastOp.conn # 0 /\ ~lastOp.ok)
        => /\ tconn[lastOp.conn].hasDeadline = lastOp.before.hasDeadline
           /\ tconn[lastOp.conn].deadline = lastOp.before.deadline

\* C11 witness: a Write failed on an open idle-timeout connection whose
\* deadline, set by an earlier success, had not passed yet at a later time
C11_Witness ==
    /\ lastOp.conn # 0
    /\ ~lastOp.ok
    /\ lastOp.op = "Write"
    /\ lastOp.before.timeoutConn
    /\ lastOp.before.st = "open"
    /\ lastOp.before.hasDeadline
    /\ lastOp.t > 0
    /\ lastOp.t < lastOp.before.deadline
    /\ tconn[lastOp.conn].deadline = lastOp.before.deadline

\* the time of the latest progress on a connection: its latest successful
\* Read or Write, or else the moment Accept returned it
LastProgress(cn) ==
    IF cn.hasDeadline THEN cn.deadline - cn.Duration ELSE cn.acceptedAt

\* C12 as stated: an accepted idle-timeout connection that is still open
\* after the idle duration has gone by without a successful Read or Write,
\* counted from Accept when none has succeeded yet, carries a deadline that
\* has expired, so that its pending operation fails and it is closed
C12_StalledPeerDropped ==
    \A c \in ConnIds :
        (/\ tconn[c].owner = "server"
         /\ tconn[c].timeoutConn
         /\ tconn[c].st = "open"
         /\ now >= LastProgress(tconn[c]) + tconn[c].Duration)
            => /\ tconn[c].hasDeadline
               /\ tconn[c].deadline <= now

\* C13 as stated: when Listener.Accept has failed to enable keep-alive or to
\* set the keep-alive period on one accepted connection, the TLS listener
\* task has not ended with that error and the shared context has not been
\* cancelled by it
C13_KeepAliveFailureContained ==
    lastAccept.err \in {ErrKeepAlive, ErrKeepAlivePeriod}
        => /\ srvErr["tls"] \notin {ErrKeepAlive, ErrKeepAlivePeriod}
           /\ taskRet["tls"] \notin {ErrKeepAlive, ErrKeepAlivePeriod}
           /\ gErr \notin {ErrKeepAlive, ErrKeepAlivePeriod}

\* setProxy has returned, with or without an error
SetProxyReturned == spPc \in {"ok", "err"}

\* C14: when some hostname of the mapping holds a path separator, setProxy
\* returns the invalid-hostname error and no handler, whatever the other
\* entries are and in whatever order the loop visited them, and the result
\* setupServer receives is that error, on which startup aborts
C14_SeparatorRejected ==
    (/\ SetProxyReturned
     /\ \E hn \in DOMAIN mapping : ContainsRune(hn, PathSeparator))
        => /\ spPc = "err"
           /\ spErr = ErrInvalidHostname
           /\ mux = {}
           /\ setProxy(mapping, goos, fsys.unreadable)
                  = [err |-> ErrInvalidHostname, mux |-> {}]

\* C14 witness: the loop had already visited a valid entry when it met the
\* hostname with the separator, and returned the error and no handler
C14_Witness ==
    /\ spPc = "err"
    /\ spErr = ErrInvalidHostname
    /\ Cardinality(DOMAIN mapping) = 2
    /\ todo # DOMAIN mapping
    /\ \E hn \in todo : ContainsRune(hn, PathSeparator)
    /\ mux = {}

\* the hostnames of the mapping whose backend resolved: all but those of a
\* well-known document that could not be read
ResolvedHosts == {hn \in DOMAIN mapping : mapping[hn] \notin fsys.unreadable}

\* C15: after setProxy has succeeded the routing table holds exactly one
\* entry for each hostname whose backend resolved and none for any other
\* host; their number is the number of distinct hostnames minus the
\* hostnames of unreadable well-known documents
C15_OneRoutePerHostname ==
    spPc = "ok"
        => /\ {rt.host : rt \in mux} = ResolvedHosts
           /\ \A hn \in ResolvedHosts : Cardinality({rt \in mux : rt.host = hn}) = 1
           /\ Cardinality(mux)
                  = Cardinality(DOMAIN mapping)
                        - Cardinality(DOMAIN mapping \ ResolvedHosts)

\* C15 witness: of two hostnames one is a well-known document that could not
\* be read, and the table holds the one entry of the other
C15_Witness ==
    /\ spPc = "ok"
    /\ Cardinality(DOMAIN mapping) = 2
    /\ Cardinality(ResolvedHosts) = 1
    /\ Cardinality(mux) = 1

\* the latest request went to the handler of a hostname whose address starts
\* with '@', on Linux
C16_AbstractRequest ==
    /\ last.served
    /\ last.route \in mux
    /\ goos = "linux"
    /\ HasPrefix(mapping[last.route.host], "@")

\* C16: on Linux every request for a hostname whose address starts with '@'
\* is dialed over the unix network at the address of the mapping followed by
\* exactly one zero byte
C16_AbstractSocketAddress ==
    C16_AbstractRequest
        => /\ last.kind = "dial"
           /\ last.dial = <<"unix", mapping[last.route.host] \o <<NUL>>>>

\* C16 witness: a request for the hostname mapped to @x was dialed at @x
\* followed by one zero byte
C16_Witness ==
    /\ C16_AbstractRequest
    /\ mapping[last.route.host] = <<"@", "x">>
    /\ last.dial = <<"unix", <<"@", "x", NUL>>>>

\* the latest request was handed to a proxying handler, whose director ran
C17_Proxied ==
    /\ last.served
    /\ last.kind \in {"http", "dial"}

\* C17 as stated: for every proxying backend kind the request the director
\* leaves has X-Forwarded-Proto "https" and X-Forwarded-For equal to the
\* observed remote address
C17_ForwardedHeaders ==
    C17_Proxied
        => /\ last.outreq.Header["X-Forwarded-Proto"] = "https"
           /\ last.outreq.Header["X-Forwarded-For"] = last.req.RemoteAddr

\* C17 amended: for every proxying backend kind the request the director
\* leaves has X-Forwarded-Proto "https"; the director of the dialing kinds
\* sets X-Forwarded-For to the observed remote address, the director of an
\* HTTP(S) upstream leaves X-Forwarded-For as the client sent it
C17_ForwardedHeadersByKind ==
    C17_Proxied
        => /\ last.outreq.Header["X-Forwarded-Proto"] = "https"
           /\ last.kind = "dial"
                  => last.outreq.Header["X-Forwarded-For"] = last.req.RemoteAddr
           /\ last.kind = "http"
                  => last.outreq.Header["X-Forwarded-For"]
                         = last.req.Header["X-Forwarded-For"]

\* C17 witness: a client sent X-Forwarded-Proto "http" and an
\* X-Forwarded-For of its own to an HTTP upstream; the director overwrote
\* the first and left the second
C17_Witness ==
    /\ C17_Proxied
    /\ last.kind = "http"
    /\ last.req.Header["X-Forwarded-Proto"] = "http"
    /\ last.req.Header["X-Forwarded-For"] = "198.51.100.7"
    /\ last.outreq.Header["X-Forwarded-Proto"] = "https"
    /\ last.outreq.Header["X-Forwarded-For"] = "198.51.100.7"

\* the latest request was for a hostname mapped to a well-known document
\* that setProxy could read
C18_WellKnownHost ==
    /\ last.served
    /\ last.req.Host \in DOMAIN mapping
    /\ IsAbs(mapping[last.req.Host])
    /\ HasSuffix(mapping[last.req.Host], "nostr.json")
    /\ mapping[last.req.Host] \notin fsys.unreadable

\* C18 as stated: on such a hostname a request for /.well-known/nostr.json
\* is answered with the bytes the file had when setProxy ran, whatever was
\* written to the file since, and with the two CORS headers; a request for
\* any other path is answered 404 and reaches no proxy
C18_WellKnownDocument ==
    C18_WellKnownHost
        => IF last.req.URL.Path = WellKnownPath
           THEN /\ last.kind = "wellknown"
                /\ last.status = 200
                /\ last.body = FileBytes(mapping[last.req.Host], FALSE)
                /\ last.respHeader["Access-Control-Allow-Origin"] = "*"
                /\ last.respHeader["Access-Control-Allow-Methods"]
                       = "GET,HEAD,PUT,PATCH,POST,DELETE"
           ELSE /\ last.status = 404
                /\ last.kind = "notfound"

\* C19: an unreadable well-known document is not fatal: when no hostname is
\* invalid, setProxy returns a nil error, no handler for the hostname of an
\* unreadable document and a handler for every other hostname, in whatever
\* order the loop visited the entries; setupServer receives the nil error
C19_UnreadableSkipped ==
    (/\ SetProxyReturned
     /\ fsys.unreadable # {}
     /\ \A hn \in DOMAIN mapping : ~ContainsRune(hn, PathSeparator))
        => /\ spPc = "ok"
           /\ spErr = Nil
           /\ setProxy(mapping, goos, fsys.unreadable).err = Nil
           /\ \A hn \in DOMAIN mapping :
                  (mapping[hn] \notin fsys.unreadable)
                      <=> (\E rt \in mux : rt.host = hn)

\* C19 witness: of two hostnames one is an unreadable well-known document;
\* setProxy returned nil and the handler of the other
C19_Witness ==
    /\ spPc = "ok"
    /\ spErr = Nil
    /\ fsys.unreadable # {}
    /\ Cardinality(DOMAIN mapping) = 2
    /\ \E hn \in DOMAIN mapping :
           /\ mapping[hn] \in fsys.unreadable
           /\ mux = ResolveEntry(CHOOSE o \in DOMAIN mapping : o # hn,
                                 mapping[CHOOSE o \in DOMAIN mapping : o # hn],
                                 goos, fsys.unreadable)
           /\ mux # {}

\* the mapping file opened and holds a line that is neither blank nor a
\* comment and has no colon
C20_BadLine ==
    /\ args.Cache # ""
    /\ conf.opens
    /\ \E i \in 1..Len(conf.lines) : conf.lines[i].kind = "noColon"

\* C20: when the mapping file holds such a line readMapping reports the
\* invalid-line error and run returns it with no routing table, no whitelist
\* and no task, whatever entries came before the line
C20_NoPartialMapping ==
    (runPc # "start" /\ C20_BadLine)
        => /\ readMapping(conf).err = ErrInvalidLine
           /\ runPc = "returned"
           /\ runErr = ErrInvalidLine
           /\ mux = {}
           /\ whitelist = {}
           /\ Launched = {}

\* C20 witness: an entry had been read before the bad line; run returned the
\* error and built no routing table from it
C20_Witness ==
    /\ C20_BadLine
    /\ runPc = "returned"
    /\ runErr = ErrInvalidLine
    /\ Len(conf.lines) = 2
    /\ DOMAIN mapping # {}
    /\ mux = {}

\* C21: every connection Listener.Accept returned without error has
\* keep-alive enabled and its period set to Period, and is wrapped in
\* timeout.Conn, with the Duration of the listener, exactly when that
\* Duration is not zero; a call in which AcceptTCP failed returns that error
\* and no connection, and accepts no connection in a further attempt
C21_AcceptContract ==
    /\ [](\A c \in ConnIds :
             tconn[c].owner = "server"
                 => /\ tconn[c].keepAlive
                    /\ tconn[c].period = Period
                    /\ tconn[c].timeoutConn <=> (ln.Duration # 0)
                    /\ tconn[c].timeoutConn => tconn[c].Duration = ln.Duration)
    /\ [](lastAccept.conn # 0
             => /\ lastAccept.err = Nil
                /\ tconn[lastAccept.conn].owner = "server"
                /\ lastAccept.timeoutConn = tconn[lastAccept.conn].timeoutConn)
    /\ [][lastAccept' # lastAccept /\ lastAccept'.err = ErrAccept
             => lastAccept'.conn = 0 /\ tconn' = tconn]_vars

\* C21 witness: a listener with a negative Duration returned a second
\* connection, wrapped in timeout.Conn, with keep-alive on
C21_Witness ==
    /\ lastAccept.conn = 2
    /\ lastAccept.err = Nil
    /\ ln.Duration < 0
    /\ lastAccept.timeoutConn
    /\ tconn[2].Duration = ln.Duration
    /\ tconn[2].keepAlive
    /\ tconn[2].period = Period

\* C22 as stated: no accepted connection is open without an owner: when
\* Listener.Accept fails to enable keep-alive or to set its period, it has
\* closed the connection before it returns the error
C22_FailedConnClosed ==
    /\ \A c \in ConnIds : tconn[c].st = "open" => tconn[c].owner = "server"
    /\ lastAccept.err \in {ErrKeepAlive, ErrKeepAlivePeriod}
           => \A c \in ConnIds : tconn[c].owner = "none" => tconn[c].st # "open"

\* C23 as stated: a request whose Host is no hostname of the mapping is
\* answered 404 and reaches no backend handler
C23_ExactHostname ==
    (last.served /\ last.req.Host \notin DOMAIN mapping)
        => /\ last.status = 404
           /\ last.kind = "notfound"

\* the latest request went to the handler of an HTTP(S) upstream
C24_Upstream ==
    /\ last.served
    /\ last.kind = "http"

\* C24: the raw query the HTTP(S) upstream director leaves is the query of
\* the target followed by the query of the request, with '&' between them
\* exactly when neither is empty; the other one when one is empty; empty
\* when both are
C24_QueryMerge ==
    C24_Upstream
        => LET t == last.route.handler.target.RawQuery
               q == last.req.URL.RawQuery
               out == last.outreq.URL.RawQuery
           IN  /\ (t # <<>> /\ q # <<>>) => out = t \o <<"&">> \o q
               /\ (t = <<>> /\ q # <<>>) => out = q
               /\ (t # <<>> /\ q = <<>>) => out = t
               /\ (t = <<>> /\ q = <<>>) => out = <<>>

\* C24 witness: the target and the request both had the query x and the
\* director left x&x
C24_Witness ==
    /\ C24_Upstream
    /\ last.route.handler.target.RawQuery = <<"x">>
    /\ last.req.URL.RawQuery = <<"x">>
    /\ last.outreq.URL.RawQuery = <<"x", "&", "x">>

\* the (network, address) that the mapping entry of hostname hn stands for
\* when it is dialed
C26_BackendOf(hn) ==
    LET ba == mapping[hn]
    IN  IF HasPrefix(ba, "@") /\ goos = "linux" THEN <<"unix", ba \o <<NUL>>>>
        ELSE IF IsAbs(ba) THEN <<"unix", ba>>
        ELSE <<"tcp", ba>>

\* the latest request went to a dialing handler
C26_Dialed ==
    /\ last.served
    /\ last.kind = "dial"

\* C26: a request routed to the dialing handler of hostname H is dialed at
\* the network and address of H's own mapping entry, whatever the request's
\* URL and headers and whatever order the loop visited the entries in
C26_OwnBackend ==
    C26_Dialed
        => /\ last.route.host \in DOMAIN mapping
           /\ last.dial = C26_BackendOf(last.route.host)

\* C26 witness: of two dialing hostnames with different backends, the
\* request for one was dialed at its own backend
C26_Witness ==
    /\ C26_Dialed
    /\ last.dial = C26_BackendOf(last.route.host)
    /\ \E o \in DOMAIN mapping :
           /\ o # last.route.host
           /\ \E rt \in mux : rt.host = o /\ rt.handler.kind = "dial"
           /\ C26_BackendOf(o) # last.dial
    /\ last.req.URL.RawQuery # <<>>

\* C25: once run has launched its tasks neither the routing table nor the
\* certificate whitelist changes again, whatever the servers, the watchers,
\* failing listeners and the shutdown do
C25_TableImmutable ==
    [][Launched # {} => (mux' = mux /\ whitelist' = whitelist)]_vars

\* C25 witness: a listener has failed, both servers have been shut down and
\* run has returned, and the routing table and the whitelist are still there
C25_Witness ==
    /\ runPc = "returned"
    /\ Launched # {}
    /\ srvErr["tls"] = ErrAccept
    /\ inShutdown["http"]
    /\ mux # {}
    /\ whitelist # {}

====
